---- MODULE Spec2Model ----
(***************************************************************************)
(* Replay playback engine of STATESTUDIO: the playback clock               *)
(* (useReplayPlayer), the episode session (useReplayEpisode over           *)
(* getEpisode/validateEpisode) and the orchestrator's transport effect     *)
(* (AppShell).                                                             *)
(*                                                                         *)
(* Numbers.  Times (frame t, duration, currentTime) are integers in one    *)
(* time unit; wall-clock instants handed to the animation callback are     *)
(* integers in one clock quantum; a speed s of the code (0.5, 1, 2, 4) is  *)
(* kept as 2*s, and one clock quantum at speed 0.5 advances currentTime by *)
(* one time unit, so "delta * speed" of the code is                        *)
(* (now - lastTick) * speed here.  Arithmetic is exact.  The code reads    *)
(* instants only through now - lastTick.current and !lastTick.current, so  *)
(* the origin of the wall clock is moved after every animation callback:   *)
(* the callback just delivered happened at instant 1.                      *)
(*                                                                         *)
(* null.  A nullable string is "" (the code tests it with !x), a nullable  *)
(* object is a sequence of length 0 or 1, lastTick.current = null is 0     *)
(* (the code tests it with !lastTick.current).                             *)
(*                                                                         *)
(* Indices are the code's: 0-based.  frames[i] of the code is frames[i+1]. *)
(***************************************************************************)
EXTENDS Integers, Sequences, FiniteSets, TLC

VARIABLES
    \* useReplayPlayer
    isPlaying, speed, currentTime, currentIndex, lastTick,
    \* useReplayEpisode
    loading, error, episode,
    inflight,       \* getEpisode calls awaiting their response
    issued,         \* number of load() calls made so far
    \* AppShell
    selectedEpisodeId, episodeId, viewMode, replayLoadBehavior, lastReplayIdRef,
    visualState, focusId, focusSource, lastValidReplayVisual,
    visualWarning, lastGoodVisualRef,
    \* history
    acc,            \* advance delivered since play() from time 0, -1 outside that run
    ticked,         \* an animation callback was delivered since the clock last started
    request,        \* the latest request made with an intent: <<>> or <<[id, intent]>>
    fired,          \* the request served by the transport action of this step
    lastOp,         \* the operation that led to this state, with the argument the properties read
    \* pure functions applied to drawn inputs
    fnIn, fnOut,
    \* SceneStateProvider
    overrides, undoStack, redoStack

playerVars == <<isPlaying, speed, currentTime, currentIndex, lastTick>>
sessionVars == <<loading, error, episode, inflight, issued>>
viewVars == <<visualState, focusId, focusSource, lastValidReplayVisual,
              visualWarning, lastGoodVisualRef>>
shellVars == <<selectedEpisodeId, episodeId, viewMode, replayLoadBehavior,
               lastReplayIdRef, viewVars>>
historyVars == <<acc, ticked, request, fired, lastOp>>
fnVars == <<fnIn, fnOut>>
sceneVars == <<overrides, undoStack, redoStack>>
vars == <<playerVars, sessionVars, shellVars, historyVars, fnVars, sceneVars>>

----------------------------------------------------------------------------
(* Bounds *)

MaxFrames == 2      \* frames per episode
MaxT == 2           \* largest frame timestamp
MaxDur == 2         \* largest duration the store returns; the smallest is -1
MaxDelta == 2       \* largest gap between two animation frames
MaxLoads == 2       \* load() calls per run
FindMaxLen == 3     \* findFrameIndex: frames per list
FindMaxT == 5       \* findFrameIndex: largest timestamp

Null == <<>>
Some(x) == <<x>>

Max2(a, b) == IF a >= b THEN a ELSE b
Min2(a, b) == IF a <= b THEN a ELSE b

TVals == 0..MaxT
\* a frame's visual payload: whether it has the shape visualStateSchema accepts,
\* its focus ("none" when absent) and one magnitude (a node's intensity)
VisualPayload(wellFormed, focus, intensity) ==
    [wellFormed |-> wellFormed, focus |-> focus, intensity |-> intensity]
Visuals == {VisualPayload(TRUE, "none", 1)}
FrameVals == [t : TVals, visual : Visuals]

----------------------------------------------------------------------------
(* useReplayPlayer: helpers *)

clamp(value, min, max) == Min2(max, Max2(min, value))

RECURSIVE findLoop(_, _, _, _)
findLoop(frames, t, i, bestIndex) ==
    IF i < Len(frames)
    THEN IF frames[i + 1].t <= t
         THEN findLoop(frames, t, i + 1, i)
         ELSE bestIndex
    ELSE bestIndex

\* variant of the search: strict comparison, no early exit
RECURSIVE findLoopNoBreak(_, _, _, _)
findLoopNoBreak(frames, t, i, bestIndex) ==
    IF i < Len(frames)
    THEN findLoopNoBreak(frames, t, i + 1, IF frames[i + 1].t < t THEN i ELSE bestIndex)
    ELSE bestIndex

findFrameIndexStrict(frames, t) ==
    IF Len(frames) = 0 THEN 0 ELSE findLoopNoBreak(frames, t, 0, 0)
findFrameIndex(frames, t) ==
    IF Len(frames) = 0 THEN 0 ELSE findLoop(frames, t, 0, 0)

\* variant of the insertion that puts a frame before the frames of equal t
RECURSIVE insertBeforeEqual(_, _)
insertBeforeEqual(sorted, f) ==
    IF Len(sorted) = 0 THEN <<f>>
    ELSE IF sorted[Len(sorted)].t - f.t >= 0
         THEN Append(insertBeforeEqual(SubSeq(sorted, 1, Len(sorted) - 1), f),
                     sorted[Len(sorted)])
         ELSE Append(sorted, f)

\* [...frames].sort((a, b) => a.t - b.t): Array.prototype.sort is stable
RECURSIVE insertByT(_, _)
insertByT(sorted, f) ==
    IF Len(sorted) = 0 THEN <<f>>
    ELSE IF sorted[Len(sorted)].t - f.t > 0
         THEN Append(insertByT(SubSeq(sorted, 1, Len(sorted) - 1), f), sorted[Len(sorted)])
         ELSE Append(sorted, f)

IsSortedByT(frames) == \A i \in 1..(Len(frames) - 1) : frames[i].t <= frames[i + 1].t

RECURSIVE sortByT(_)
sortByT(frames) ==
    IF Len(frames) = 0 THEN <<>>
    ELSE insertByT(sortByT(SubSeq(frames, 1, Len(frames) - 1)), frames[Len(frames)])

----------------------------------------------------------------------------
(* replayApi: what getEpisode hands to useReplayEpisode *)

\* obj.duration as it arrives in the JSON payload: a number, absent (or not a
\* number), NaN, or +/-Infinity (JSON.parse("1e999"))
RawDurations ==
    [kind : {"num"}, val : -1..MaxDur]
        \cup {[kind |-> k, val |-> 0] : k \in {"missing", "nan", "inf"}}
RawFrameSeqs == UNION {[1..n -> FrameVals] : n \in 0..MaxFrames}
RawEpisodes(id) == [episode_id : {id}, frames : RawFrameSeqs, duration : RawDurations]

\* typeof value === "number" && !Number.isNaN(value)
assertNumber(value) == value.kind \in {"num", "inf"}

\* validateEpisode returns the payload or throws; frames carry numeric t here
validateEpisode(obj) == assertNumber(obj.duration)

isFinite(value) == value.kind = "num"

lastTOf(frames) == IF Len(frames) = 0 THEN 0 ELSE frames[Len(frames)].t

\* the body of load()'s try block after the await
reconcile(data) ==
    LET frames == sortByT(data.frames)
        lastT == lastTOf(frames)
        duration == IF isFinite(data.duration) /\ data.duration.val > 0
                    THEN data.duration.val ELSE lastT
    IN  [episode_id |-> data.episode_id, frames |-> frames,
         duration |-> IF duration > 0 THEN duration ELSE 0]

\* every episode a successful load can store for id
StoredEpisodes(id) == {reconcile(raw) : raw \in {r \in RawEpisodes(id) : validateEpisode(r)}}

----------------------------------------------------------------------------
(* AppShell: what it passes to useReplayPlayer(frames, duration) *)

PlayerFramesOf(ep) == IF ep = Null THEN <<>> ELSE ep[1].frames
\* Number.isFinite(d) && d ? Math.max(0, d) : Math.max(0, frames.slice(-1)[0]?.t ?? 0)
replayDurationOf(ep) ==
    IF ep /= Null /\ ep[1].duration /= 0
    THEN Max2(0, ep[1].duration)
    ELSE Max2(0, lastTOf(PlayerFramesOf(ep)))
sortedFramesOf(ep) == sortByT(PlayerFramesOf(ep))

sortedFrames == sortedFramesOf(episode)
duration == replayDurationOf(episode)

----------------------------------------------------------------------------
(* useReplayPlayer: the hook's state as a record, its callbacks and effects *)

SpeedOptions == {1, 2, 4, 8}    \* 0.5 | 1 | 2 | 4, doubled

Player == [isPlaying |-> isPlaying, speed |-> speed, currentTime |-> currentTime,
           currentIndex |-> currentIndex, lastTick |-> lastTick]

SetPlayer(p) ==
    /\ isPlaying' = p.isPlaying
    /\ speed' = p.speed
    /\ currentTime' = p.currentTime
    /\ currentIndex' = p.currentIndex
    /\ lastTick' = p.lastTick

\* variant of the tick effect that keeps the baseline when the clock stops
keepBaseline(p) == p
\* the tick effect's first branch: if (!isPlaying) lastTick.current = null
tickEffect(p) == IF p.isPlaying THEN p ELSE [p EXCEPT !.lastTick = 0]

play(p, dur) == [p EXCEPT !.isPlaying = TRUE]
pause(p) == tickEffect([p EXCEPT !.isPlaying = FALSE])
togglePlay(p) == tickEffect([p EXCEPT !.isPlaying = ~p.isPlaying])
handleSetSpeed(p, next) == [p EXCEPT !.speed = next]

\* variant of scrub that moves the time and leaves the index
scrubStale(p, t, frames, dur) == [p EXCEPT !.currentTime = clamp(t, 0, dur)]
scrub(p, t, frames, dur) ==
    LET clamped == clamp(t, 0, dur)
    IN  [p EXCEPT !.currentTime = clamped,
                  !.currentIndex = findFrameIndex(frames, clamped)]

frameT(frames, i) == IF i >= 0 /\ i < Len(frames) THEN frames[i + 1].t ELSE 0

step(p, deltaFrames, frames) ==
    LET nextIndex == clamp(p.currentIndex + deltaFrames, 0, Len(frames) - 1)
    IN  [p EXCEPT !.currentIndex = nextIndex, !.currentTime = frameT(frames, nextIndex)]

\* the requestAnimationFrame callback, with the state update it queues and the
\* tick effect that follows setIsPlaying(false)
tickDelta(p, now) == now - (IF p.lastTick = 0 THEN now ELSE p.lastTick)
\* variant of the callback that stops only past the end (next > duration)
tickLate(p, now, frames, dur) ==
    LET next == clamp(p.currentTime + tickDelta(p, now) * p.speed, 0, dur)
    IN  tickEffect([p EXCEPT !.lastTick = now, !.currentTime = next,
                             !.currentIndex = findFrameIndex(frames, next),
                             !.isPlaying = ~(next > dur)])
tick(p, now, frames, dur) ==
    LET next == clamp(p.currentTime + tickDelta(p, now) * p.speed, 0, dur)
    IN  tickEffect([p EXCEPT !.lastTick = now, !.currentTime = next,
                             !.currentIndex = findFrameIndex(frames, next),
                             !.isPlaying = ~(next >= dur)])

\* the wall clock's origin moved to one quantum before the callback just delivered
rebase(p) == [p EXCEPT !.lastTick = IF @ = 0 THEN 0 ELSE 1]

\* the deps of the reset effect differ between two renders
resetDepsChanged(oldEp, newEp) ==
    \/ replayDurationOf(oldEp) /= replayDurationOf(newEp)
    \/ Len(sortedFramesOf(oldEp)) /= Len(sortedFramesOf(newEp))

\* variant of the reset effect with deps [duration] only
resetOnDuration(p, oldEp, newEp) ==
    IF replayDurationOf(oldEp) /= replayDurationOf(newEp)
    THEN tickEffect([p EXCEPT !.currentTime = 0, !.currentIndex = 0, !.isPlaying = FALSE])
    ELSE p
\* the reset effect, deps [duration, sortedFrames.length], on a change of the inputs
resetEffect(p, oldEp, newEp) ==
    IF resetDepsChanged(oldEp, newEp)
    THEN tickEffect([p EXCEPT !.currentTime = 0, !.currentIndex = 0, !.isPlaying = FALSE])
    ELSE p

----------------------------------------------------------------------------
(* visualState: the schema check and the normalisation of a payload *)

clamp01(value) == clamp(value, 0, 1)

\* variant of the parse that accepts every payload
parseAnything(input) ==
    [ok |-> TRUE, data |-> [input EXCEPT !.intensity = clamp01(@)]]
\* parseVisualState: safeParse, then the magnitudes normalised
parseVisualState(input) ==
    IF input.wellFormed
    THEN [ok |-> TRUE, data |-> [input EXCEPT !.intensity = clamp01(@)]]
    ELSE [ok |-> FALSE, data |-> input]

mockVisualState == VisualPayload(TRUE, "node_core", 1)

----------------------------------------------------------------------------
(* Initial state: the hooks after mount, no episode selected *)

Op(name, arg) == [op |-> name, arg |-> arg, io |-> Null]
\* an operation recorded with what it was given and what it produced
OpIO(name, io) == [op |-> name, arg |-> 0, io |-> Some(io)]

PlayerInit ==
    /\ isPlaying = FALSE
    /\ speed = 2
    /\ currentTime = 0
    /\ currentIndex = 0
    /\ lastTick = 0

SessionInit ==
    /\ loading = FALSE
    /\ error = ""
    /\ episode = Null
    /\ inflight = {}
    /\ issued = 0

ShellInit ==
    /\ selectedEpisodeId = ""
    /\ episodeId = ""
    /\ viewMode = "live"
    /\ replayLoadBehavior = ""
    /\ lastReplayIdRef = ""
    /\ visualState = mockVisualState
    /\ focusId = mockVisualState.focus
    /\ focusSource = "replay"
    /\ lastValidReplayVisual = Null
    /\ visualWarning = ""
    /\ lastGoodVisualRef = mockVisualState

HistoryInit ==
    /\ acc = -1
    /\ ticked = FALSE
    /\ request = Null
    /\ fired = Null
    /\ lastOp = Op("mount", 0)

FnIdle ==
    /\ fnIn = Null
    /\ fnOut = Null

\* the scene objects that can carry an override; a key without an entry is Null
SceneIds == {"a"}
NoOverrides == [id \in SceneIds |-> Null]

SceneIdle ==
    /\ overrides = NoOverrides
    /\ undoStack = <<>>
    /\ redoStack = <<>>

----------------------------------------------------------------------------
(* useReplayPlayer driven through its interface: the callbacks in any order, *)
(* animation frames while playing, and the inputs AppShell can pass          *)

ScrubArgs == -1..(MaxDur + 1)
StepArgs == -2..2

\* the run "paused at 0, play(), then only animation frames and speed changes"
accAfterPlay ==
    IF isPlaying THEN acc
    ELSE IF currentTime = 0 /\ duration > 0 THEN 0 ELSE -1
accAfterTick(now) ==
    IF acc < 0 THEN -1
    ELSE Min2(acc + tickDelta(Player, now) * speed, duration + 1)

\* the clock runs after the step, and either this step delivered a callback or
\* the clock ran before it and a callback had been delivered
tickedAfter(isTick) == isPlaying' /\ (isTick \/ (isPlaying /\ ticked))

HookFrame == UNCHANGED <<loading, error, inflight, issued, shellVars, request, fired, fnVars, sceneVars>>

Play ==
    /\ SetPlayer(play(Player, duration))
    /\ acc' = accAfterPlay
    /\ ticked' = tickedAfter(FALSE)
    /\ lastOp' = Op("play", 0)
    /\ UNCHANGED episode
    /\ HookFrame

Pause ==
    /\ SetPlayer(pause(Player))
    /\ acc' = -1
    /\ ticked' = tickedAfter(FALSE)
    /\ lastOp' = Op("pause", 0)
    /\ UNCHANGED episode
    /\ HookFrame

TogglePlay ==
    /\ SetPlayer(togglePlay(Player))
    /\ acc' = IF isPlaying THEN -1 ELSE accAfterPlay
    /\ ticked' = tickedAfter(FALSE)
    /\ lastOp' = Op("togglePlay", 0)
    /\ UNCHANGED episode
    /\ HookFrame

SetSpeed(next) ==
    /\ SetPlayer(handleSetSpeed(Player, next))
    /\ lastOp' = Op("setSpeed", 0)
    /\ UNCHANGED <<episode, acc>>
    /\ ticked' = tickedAfter(FALSE)
    /\ HookFrame

Scrub(t) ==
    /\ SetPlayer(scrub(Player, t, sortedFrames, duration))
    /\ acc' = -1
    /\ ticked' = tickedAfter(FALSE)
    /\ lastOp' = Op("scrub", t)
    /\ UNCHANGED episode
    /\ HookFrame

Step(deltaFrames) ==
    /\ SetPlayer(step(Player, deltaFrames, sortedFrames))
    /\ acc' = -1
    /\ ticked' = tickedAfter(FALSE)
    /\ lastOp' = Op("step", 0)
    /\ UNCHANGED episode
    /\ HookFrame

Tick(now) ==
    /\ isPlaying
    /\ SetPlayer(rebase(tick(Player, now, sortedFrames, duration)))
    /\ acc' = accAfterTick(now)
    /\ ticked' = tickedAfter(TRUE)
    /\ lastOp' = Op("tick", now)
    /\ UNCHANGED episode
    /\ HookFrame

\* paused at the start: what the reset effect leaves
PlayerAtRest == [Player EXCEPT !.isPlaying = FALSE, !.currentTime = 0,
                               !.currentIndex = 0, !.lastTick = 0]

\* a render with other frames/duration, and the reset effect it triggers; the
\* history records whether the deps changed while the player was not at rest
SetInputs(ep) ==
    /\ ep /= episode
    /\ episode' = ep
    /\ SetPlayer(resetEffect(Player, episode, ep))
    /\ acc' = -1
    /\ ticked' = tickedAfter(FALSE)
    /\ lastOp' = Op("inputs", IF resetDepsChanged(episode, ep) /\ Player /= PlayerAtRest
                               THEN 1 ELSE 0)
    /\ HookFrame

\* null, or an episode useReplayEpisode has stored, its frames at distinct
\* instants (frames that share an instant are the subject of the search's and
\* the sort's own specifications)
PlayerInputs ==
    {Null} \cup {Some(e) : e \in {x \in StoredEpisodes("A") :
                    \A i \in 1..(Len(x.frames) - 1) : x.frames[i].t < x.frames[i + 1].t}}

\* the instants the next animation callback can be given: after the previous
\* callback (instant 1 once one was delivered since play)
Nows == 2..(1 + MaxDelta)

PlayerNext ==
    \/ Play
    \/ Pause
    \/ TogglePlay
    \/ \E next \in SpeedOptions : SetSpeed(next)
    \/ \E t \in ScrubArgs : Scrub(t)
    \/ \E n \in StepArgs : Step(n)
    \/ \E now \in Nows : Tick(now)
    \/ \E ep \in PlayerInputs : SetInputs(ep)

PlayerSpecInit == PlayerInit /\ SessionInit /\ ShellInit /\ HistoryInit /\ FnIdle /\ SceneIdle

SpecPlayer == PlayerSpecInit /\ [][PlayerNext]_vars

----------------------------------------------------------------------------
(* useReplayEpisode: load(), the effect on its episodeId prop, and the         *)
(* settlement of a getEpisode promise.  The hook's episodeId prop is AppShell's *)
(* selectedEpisodeId.                                                          *)

EpisodeIds == {"A", "B"}

\* what a getEpisode(id) call can settle with: fetchJson threw (no data), or a
\* JSON payload for that id, which validateEpisode accepts or throws on
FetchFailed == [data |-> Null, message |-> "Request failed"]
Payload(raw) == [data |-> Some(raw), message |-> "Invalid duration: expected number"]
Responses(id) == {FetchFailed} \cup {Payload(raw) : raw \in RawEpisodes(id)}

Accepted(resp) == resp.data /= Null /\ validateEpisode(resp.data[1])

Session == [loading |-> loading, error |-> error, episode |-> episode]

SetSession(s) ==
    /\ loading' = s.loading
    /\ error' = s.error
    /\ episode' = s.episode

\* load() up to its await
loadStart(s) == [s EXCEPT !.loading = TRUE, !.error = ""]

\* variant of load() whose catch leaves the stored episode
loadSettleKeepsEpisode(s, resp) ==
    IF Accepted(resp)
    THEN [s EXCEPT !.episode = Some(reconcile(resp.data[1])), !.loading = FALSE]
    ELSE [s EXCEPT !.error = resp.message, !.loading = FALSE]
\* load() after its await: the rest of try, catch, finally
loadSettle(s, resp) ==
    IF Accepted(resp)
    THEN [s EXCEPT !.episode = Some(reconcile(resp.data[1])), !.loading = FALSE]
    ELSE [s EXCEPT !.episode = Null, !.error = resp.message, !.loading = FALSE]

\* the effect's branch for a null episodeId
clearSession(s) == [s EXCEPT !.episode = Null, !.error = "", !.loading = FALSE]

NewCall(id) == [id |-> id, seq |-> issued + 1]

IssueLoad(id) ==
    /\ issued < MaxLoads
    /\ inflight' = inflight \cup {NewCall(id)}
    /\ issued' = issued + 1

SessionFrame == UNCHANGED <<playerVars, episodeId, viewMode, replayLoadBehavior,
                            lastReplayIdRef, viewVars, acc, ticked, request, fired, fnVars, sceneVars>>

\* the episodeId prop changes; the effect clears the state or calls load()
SetEpisodeId(id) ==
    /\ id /= selectedEpisodeId
    /\ selectedEpisodeId' = id
    /\ IF id = ""
       THEN SetSession(clearSession(Session)) /\ UNCHANGED <<inflight, issued>>
       ELSE SetSession(loadStart(Session)) /\ IssueLoad(id)
    /\ lastOp' = Op("episodeId", 0)
    /\ SessionFrame

\* reload(): load() for the current id; returns at once when the id is null
Reload ==
    /\ selectedEpisodeId /= ""
    /\ SetSession(loadStart(Session))
    /\ IssueLoad(selectedEpisodeId)
    /\ lastOp' = Op("reload", 0)
    /\ UNCHANGED selectedEpisodeId
    /\ SessionFrame

\* a pending getEpisode promise settles, in any order among the pending ones
Settle(call, resp) ==
    /\ call \in inflight
    /\ inflight' = inflight \ {call}
    /\ SetSession(loadSettle(Session, resp))
    /\ lastOp' = OpIO("settle", [call |-> call, resp |-> resp])
    /\ UNCHANGED <<issued, selectedEpisodeId>>
    /\ SessionFrame

SessionNext ==
    \/ \E id \in EpisodeIds \cup {""} : SetEpisodeId(id)
    \/ Reload
    \/ \E call \in inflight : \E resp \in Responses(call.id) : Settle(call, resp)

SessionSpecInit == PlayerInit /\ SessionInit /\ ShellInit /\ HistoryInit /\ FnIdle /\ SceneIdle

SpecSession == SessionSpecInit /\ [][SessionNext]_vars

----------------------------------------------------------------------------
(* fetchJson: one call is a record in inflight; the fetch promise, the body   *)
(* read and the abort timer are its events                                    *)

LoadMaxCalls == 2
HttpStatuses == {200, 404, 500}

\* FetchJsonError; status 0 stands for status undefined
FetchJsonError(message, status) == [message |-> message, status |-> status]

\* fetchJson entered: controller and timer created, first attempt started
FetchCall(id, seq, caller, retryNetworkErrors) ==
    [id |-> id, seq |-> seq, caller |-> caller,
     retryNetworkErrors |-> retryNetworkErrors,
     attempt |-> 1, phase |-> "fetch", status |-> 0, aborted |-> FALSE, log |-> <<>>]

\* variant of the timer callback that leaves the signal alone
abortIgnored(c) == c
\* the timer callback: controller.abort()
abort(c) == [c EXCEPT !.aborted = TRUE]

\* variant of the retry decision that retries every failure of the first attempt
retryAnyError(c, firstError) == c.attempt = 1 /\ c.retryNetworkErrors
\* the catch of the first attempt: retryNetworkErrors && isNetworkError
shouldRetry(c, firstError) ==
    c.attempt = 1 /\ c.retryNetworkErrors /\ firstError.status = 0

\* what fetchJson has done with the call: still running, returned or thrown
Running(c) == [call |-> c, done |-> FALSE, ok |-> FALSE, data |-> Null,
               err |-> FetchJsonError("", 0)]
Returned(c, data) == [call |-> c, done |-> TRUE, ok |-> TRUE, data |-> Some(data),
                      err |-> FetchJsonError("", 0)]
Thrown(c, err) == [call |-> c, done |-> TRUE, ok |-> FALSE, data |-> Null, err |-> err]

\* an attempt throws err: the retry, or the throw to the caller
attemptThrows(c, err, tag) ==
    LET logged == [c EXCEPT !.log = Append(@, tag)]
    IN  IF shouldRetry(c, err)
        THEN Running([logged EXCEPT !.attempt = 2, !.phase = "fetch", !.status = 0])
        ELSE Thrown(logged, err)

\* await fetch(...) rejects: connectivity, or the signal is aborted
fetchRejects(c) ==
    IF c.aborted
    THEN attemptThrows(c, FetchJsonError("The operation was aborted.", 0), "abort")
    ELSE attemptThrows(c, FetchJsonError("Failed to fetch", 0), "network")

\* await fetch(...) resolves with a response
fetchResolves(c, status) ==
    IF status = 200
    THEN Running([c EXCEPT !.phase = "json", !.status = status])
    ELSE attemptThrows(c, FetchJsonError("Request failed", status), "http")

\* await res.json() resolves / rejects (bad JSON, or the body read is aborted)
jsonResolves(c, data) == Returned([c EXCEPT !.log = Append(@, "ok")], data)
jsonRejects(c) ==
    attemptThrows(c, FetchJsonError("Invalid JSON response", c.status), "json")

\* getEpisode's result for load(): the data for validateEpisode, or the error
respOf(r) ==
    IF r.ok THEN Payload(r.data[1]) ELSE [data |-> Null, message |-> r.err.message]

\* the payloads a store answers with: no frames or one frame, duration a
\* number or absent
FetchPayloads(id) ==
    [episode_id : {id},
     frames : {<<>>} \cup {<<[t |-> 1, visual |-> v]>> : v \in Visuals},
     duration : {[kind |-> "num", val |-> 1], [kind |-> "missing", val |-> 0]}]

FetchFrame == UNCHANGED <<playerVars, episodeId, viewMode, replayLoadBehavior,
                          lastReplayIdRef, viewVars, acc, ticked, request, fired, fnVars, sceneVars>>

\* the event's outcome r for call c: the call goes on, or fetchJson ends (finally:
\* clearTimeout) and its caller continues; load() runs the rest of try/catch/finally
Advance(c, r) ==
    /\ inflight' = IF r.done THEN inflight \ {c} ELSE (inflight \ {c}) \cup {r.call}
    /\ IF r.done /\ c.caller = "getEpisode"
       THEN SetSession(loadSettle(Session, respOf(r)))
       ELSE UNCHANGED <<loading, error, episode>>
    /\ lastOp' = IF r.done
                 THEN OpIO("settle", [call |-> r.call, resp |-> respOf(r), result |-> r])
                 ELSE Op("fetch", 0)
    /\ UNCHANGED <<issued, selectedEpisodeId>>
    /\ FetchFrame

TimerFires(c) ==
    /\ ~c.aborted
    /\ inflight' = (inflight \ {c}) \cup {abort(c)}
    /\ lastOp' = Op("timer", 0)
    /\ UNCHANGED <<loading, error, episode, issued, selectedEpisodeId>>
    /\ FetchFrame

FetchRejects(c) == c.phase = "fetch" /\ Advance(c, fetchRejects(c))
FetchResolves(c, status) ==
    c.phase = "fetch" /\ ~c.aborted /\ Advance(c, fetchResolves(c, status))
JsonResolves(c, data) ==
    c.phase = "json" /\ ~c.aborted /\ Advance(c, jsonResolves(c, data))
JsonRejects(c) == c.phase = "json" /\ Advance(c, jsonRejects(c))

FetchEvents ==
    \E c \in inflight :
        \/ TimerFires(c)
        \/ FetchRejects(c)
        \/ \E status \in HttpStatuses : FetchResolves(c, status)
        \/ \E data \in FetchPayloads(c.id) : JsonResolves(c, data)
        \/ JsonRejects(c)

\* fetchJson(url, options) called by any client
FetchBegin(id, retryNetworkErrors) ==
    /\ issued < LoadMaxCalls
    /\ inflight' = inflight \cup {FetchCall(id, issued + 1, "client", retryNetworkErrors)}
    /\ issued' = issued + 1
    /\ lastOp' = Op("fetchJson", 0)
    /\ UNCHANGED <<loading, error, episode, selectedEpisodeId>>
    /\ FetchFrame

FetchNext ==
    \/ \E id \in EpisodeIds : \E retry \in BOOLEAN : FetchBegin(id, retry)
    \/ FetchEvents

SpecFetch == SessionSpecInit /\ [][FetchNext]_vars

\* load() called for id (the effect on a new episodeId, or reload for the same
\* id): getEpisode calls fetchJson with the default options
LoadBegin(id) ==
    /\ issued < LoadMaxCalls
    /\ selectedEpisodeId' = id
    /\ SetSession(loadStart(Session))
    /\ inflight' = inflight \cup {FetchCall(id, issued + 1, "getEpisode", TRUE)}
    /\ issued' = issued + 1
    /\ lastOp' = Op("load", 0)
    /\ FetchFrame

LoadNext ==
    \/ \E id \in EpisodeIds : LoadBegin(id)
    \/ FetchEvents

SpecLoad == SessionSpecInit /\ [][LoadNext]_vars

\* the timer set by setTimeout fires, and an aborted fetch or body read rejects
AbortProgress ==
    \E c \in inflight : TimerFires(c) \/ (c.aborted /\ (FetchRejects(c) \/ JsonRejects(c)))

SpecLoadLive == SpecLoad /\ WF_vars(AbortProgress)

----------------------------------------------------------------------------
(* AppShell: the component's state as a record, its effects in hook order, and *)
(* its event handlers.  A handler's state updates are followed by the renders  *)
(* and effects they cause, until no effect changes the state.                  *)

App == [p |-> Player, s |-> Session, inflight |-> inflight, issued |-> issued,
        selectedEpisodeId |-> selectedEpisodeId, episodeId |-> episodeId,
        viewMode |-> viewMode, replayLoadBehavior |-> replayLoadBehavior,
        lastReplayIdRef |-> lastReplayIdRef,
        visualState |-> visualState, focusId |-> focusId, focusSource |-> focusSource,
        lastValidReplayVisual |-> lastValidReplayVisual,
        visualWarning |-> visualWarning, lastGoodVisualRef |-> lastGoodVisualRef,
        transported |-> Null]     \* the transport action taken since the handler began

SetApp(a) ==
    /\ SetPlayer(a.p)
    /\ SetSession(a.s)
    /\ inflight' = a.inflight
    /\ issued' = a.issued
    /\ selectedEpisodeId' = a.selectedEpisodeId
    /\ episodeId' = a.episodeId
    /\ viewMode' = a.viewMode
    /\ replayLoadBehavior' = a.replayLoadBehavior
    /\ lastReplayIdRef' = a.lastReplayIdRef
    /\ visualState' = a.visualState
    /\ focusId' = a.focusId
    /\ focusSource' = a.focusSource
    /\ lastValidReplayVisual' = a.lastValidReplayVisual
    /\ visualWarning' = a.visualWarning
    /\ lastGoodVisualRef' = a.lastGoodVisualRef

\* player.currentFrame: sortedFrames[currentIndex] ?? null
currentFrameOf(a) ==
    LET frames == sortedFramesOf(a.s.episode)
    IN  IF a.p.currentIndex >= 0 /\ a.p.currentIndex < Len(frames)
        THEN Some(frames[a.p.currentIndex + 1]) ELSE Null

\* replayVisualState: the current frame's visual when it parses
replayVisualStateOf(a) ==
    LET frame == currentFrameOf(a)
    IN  IF frame = Null THEN Null
        ELSE LET parsed == parseVisualState(frame[1].visual)
             IN  IF parsed.ok THEN Some(parsed.data) ELSE Null

\* variant of the choice without the last valid replay visual
currentOrLive(a) ==
    IF a.viewMode = "replay" /\ replayVisualStateOf(a) /= Null
    THEN replayVisualStateOf(a)[1]
    ELSE a.visualState
\* activeVisualCandidate
activeVisualCandidate(a) ==
    IF a.viewMode = "replay" /\ replayVisualStateOf(a) /= Null
    THEN replayVisualStateOf(a)[1]
    ELSE IF a.viewMode = "replay" /\ a.lastValidReplayVisual /= Null
    THEN a.lastValidReplayVisual[1]
    ELSE a.visualState

\* validatedVisual, computed while rendering: the ref and the warning it sets
renderVisual(a) ==
    LET parsed == parseVisualState(activeVisualCandidate(a))
    IN  IF parsed.ok
        THEN [a EXCEPT !.lastGoodVisualRef = parsed.data, !.visualWarning = ""]
        ELSE [a EXCEPT !.visualWarning = "Visual payload invalid"]
validatedVisual(a) ==
    LET parsed == parseVisualState(activeVisualCandidate(a))
    IN  IF parsed.ok THEN parsed.data ELSE a.lastGoodVisualRef

\* the banner "Current frame missing visual. Showing last valid state."
replayVisualWarning(a) ==
    /\ a.viewMode = "replay"
    /\ currentFrameOf(a) /= Null
    /\ replayVisualStateOf(a) = Null
    /\ a.lastValidReplayVisual /= Null

\* Each effect reads the render it belongs to (cur; prev is the render before it,
\* for the deps) and queues its updates on w.

\* useReplayEpisode's effect, deps [episodeId, load]
episodeEffect(prev, cur, w) ==
    IF cur.selectedEpisodeId = prev.selectedEpisodeId THEN w
    ELSE IF cur.selectedEpisodeId = ""
    THEN [w EXCEPT !.s = clearSession(@)]
    ELSE [w EXCEPT !.s = loadStart(@),
                   !.inflight = @ \cup {[id |-> cur.selectedEpisodeId, seq |-> w.issued + 1]},
                   !.issued = @ + 1]

\* useReplayPlayer's reset effect
playerResetEffect(prev, cur, w) ==
    [w EXCEPT !.p = resetEffect(@, prev.s.episode, cur.s.episode)]

\* if (selectedEpisodeId) setEpisodeId(selectedEpisodeId), deps [selectedEpisodeId]
mirrorEffect(prev, cur, w) ==
    IF cur.selectedEpisodeId /= prev.selectedEpisodeId /\ cur.selectedEpisodeId /= ""
    THEN [w EXCEPT !.episodeId = cur.selectedEpisodeId]
    ELSE w

\* if (replayVisualState) setLastValidReplayVisual(replayVisualState)
lastValidEffect(prev, cur, w) ==
    IF replayVisualStateOf(cur) /= Null
    THEN [w EXCEPT !.lastValidReplayVisual = replayVisualStateOf(cur)]
    ELSE w

\* deps [replayEpisode.episode]: the episode has become null
episodeNullEffect(prev, cur, w) ==
    IF cur.s.episode = Null /\ prev.s.episode /= Null
    THEN [w EXCEPT !.visualState = mockVisualState, !.focusSource = "replay",
                   !.focusId = mockVisualState.focus, !.lastValidReplayVisual = Null]
    ELSE w

\* replay mode with a session error reverts to live
errorEffect(prev, cur, w) ==
    IF cur.viewMode = "replay" /\ cur.s.error /= ""
    THEN [w EXCEPT !.viewMode = "live"]
    ELSE w

\* the focus encoded in the data, null as "none"
focusFromVisual(a) ==
    IF replayVisualStateOf(a) /= Null /\ replayVisualStateOf(a)[1].focus /= "none"
    THEN replayVisualStateOf(a)[1].focus
    ELSE IF a.lastValidReplayVisual /= Null THEN a.lastValidReplayVisual[1].focus
    ELSE "none"

\* variant of the focus effect without the focusSource guard
focusIgnoringSource(prev, cur, w) ==
    IF cur.viewMode /= "replay" THEN w
    ELSE IF focusFromVisual(cur) /= "none"
    THEN [w EXCEPT !.focusId = focusFromVisual(cur)]
    ELSE w
\* the focus effect, deps [focusSource, lastValidReplayVisual, replayVisualState,
\* viewMode]; replayVisualState is a new object whenever the current frame is
focusEffect(prev, cur, w) ==
    IF /\ cur.focusSource = prev.focusSource
       /\ cur.lastValidReplayVisual = prev.lastValidReplayVisual
       /\ cur.viewMode = prev.viewMode
       /\ currentFrameOf(cur) = currentFrameOf(prev)
       /\ cur.s.episode = prev.s.episode /\ cur.p.currentIndex = prev.p.currentIndex
    THEN w
    ELSE IF cur.viewMode /= "replay" \/ cur.focusSource = "user" THEN w
    ELSE IF focusFromVisual(cur) /= "none"
    THEN [w EXCEPT !.focusId = focusFromVisual(cur)]
    ELSE w

\* the transport effect: player is a new object on every render, so the effect
\* runs after every render and its guards decide
transportEffect(prev, cur, w) ==
    IF cur.viewMode /= "replay" \/ cur.s.episode = Null THEN w
    ELSE IF w.lastReplayIdRef = cur.s.episode[1].episode_id THEN w
    ELSE LET ep == cur.s.episode
             frames == sortedFramesOf(ep)
             dur == replayDurationOf(ep)
         IN  [w EXCEPT !.lastReplayIdRef = ep[1].episode_id,
                       !.p = IF cur.replayLoadBehavior = "start"
                             THEN play(scrub(@, 0, frames, dur), dur)
                             ELSE scrub(pause(@), ep[1].duration, frames, dur),
                       !.replayLoadBehavior = "",
                       !.focusSource = "replay",
                       !.transported = Some([id |-> ep[1].episode_id,
                                             behavior |-> cur.replayLoadBehavior])]

\* one commit: the effects in the order the hooks are called
runEffects(prev, cur) ==
    LET w0 == renderVisual(cur)
        w1 == episodeEffect(prev, cur, w0)
        w2 == playerResetEffect(prev, cur, w1)
        w3 == mirrorEffect(prev, cur, w2)
        w4 == lastValidEffect(prev, cur, w3)
        w5 == episodeNullEffect(prev, cur, w4)
        w6 == errorEffect(prev, cur, w5)
        w7 == focusEffect(prev, cur, w6)
    IN  transportEffect(prev, cur, w7)

RECURSIVE commit(_, _)
commit(prev, cur) ==
    LET next == runEffects(prev, cur)
    IN  IF next = cur THEN cur ELSE commit(cur, next)

----------------------------------------------------------------------------
(* AppShell: event handlers *)

\* ReplayBar: disablePlayback
disablePlayback ==
    \/ Len(PlayerFramesOf(episode)) = 0
    \/ duration <= 0
    \/ loading

\* the request a handler leaves, and the request the transport action served
requestAfter(a, req) ==
    IF req /= Null /\ ~req[1].served /\ a.transported /= Null
          /\ a.transported[1].id = req[1].id
    THEN Some([req[1] EXCEPT !.served = TRUE])
    ELSE req
firedAfter(a, req) ==
    IF req /= Null /\ ~req[1].served /\ a.transported /= Null
          /\ a.transported[1].id = req[1].id
    THEN Some([id |-> req[1].id, intent |-> req[1].intent])
    ELSE Null

\* the handler's updates (cur), the renders and effects that follow, and the
\* history (the event is recorded with 1 when the transport action was taken)
HandleOp(cur, req, name, isTick) ==
    \E a \in {commit(App, cur)} :
        /\ a.issued <= MaxLoads
        /\ SetApp(a)
        /\ request' = requestAfter(a, req)
        /\ fired' = firedAfter(a, req)
        /\ acc' = -1
        /\ ticked' = tickedAfter(isTick)
        /\ lastOp' = Op(name, IF a.transported /= Null THEN 1 ELSE 0)
        /\ UNCHANGED <<fnVars, sceneVars>>

HandleAs(cur, req, name) == HandleOp(cur, req, name, FALSE)
Handle(cur, req) == HandleAs(cur, req, "event")

NewRequest(id, intent) == Some([id |-> id, intent |-> intent, served |-> FALSE])

\* TopBar's episode select
OnEpisodeChange(id) ==
    /\ id /= selectedEpisodeId
    /\ Handle([App EXCEPT !.selectedEpisodeId = id], Null)

\* TopBar's Reload: replayEpisode.reload()
OnReloadEpisode ==
    /\ selectedEpisodeId /= ""
    /\ Handle([App EXCEPT !.s = loadStart(@),
                          !.inflight = @ \cup {NewCall(selectedEpisodeId)},
                          !.issued = @ + 1],
              request)

\* handleStartDemo after seedDemo returned a new episode's id
StartDemoSeeded(id) ==
    /\ id /= selectedEpisodeId
    /\ Handle([App EXCEPT !.selectedEpisodeId = id, !.viewMode = "replay",
                          !.replayLoadBehavior = "start"],
              NewRequest(id, "start"))

\* TopBar's Open Replay, shown in live mode when episodeId is set
OnOpenReplay ==
    /\ viewMode = "live"
    /\ episodeId /= ""
    /\ Handle([App EXCEPT !.selectedEpisodeId = episodeId, !.viewMode = "replay",
                          !.replayLoadBehavior = "end"],
              NewRequest(episodeId, "end"))

OnBackToLive ==
    /\ viewMode = "replay"
    /\ Handle([App EXCEPT !.viewMode = "live"], request)

OnReplayFromStart ==
    /\ viewMode = "replay"
    /\ Handle([App EXCEPT !.p = play(scrub(@, 0, sortedFrames, duration), duration)],
              request)

\* ReplayBar's controls, enabled unless disablePlayback
BarTogglePlay ==
    /\ ~disablePlayback
    /\ Handle([App EXCEPT !.p = togglePlay(@)], request)

BarSetSpeed(next) ==
    /\ ~disablePlayback
    /\ Handle([App EXCEPT !.p = handleSetSpeed(@, next)], request)

BarScrub(t) ==
    /\ ~disablePlayback
    /\ Handle([App EXCEPT !.p = scrub(@, t, sortedFrames, duration)], request)

BarStep(deltaFrames) ==
    /\ ~disablePlayback
    /\ Handle([App EXCEPT !.p = step(@, deltaFrames, sortedFrames)],
              request)

AppTick(now) ==
    /\ isPlaying
    /\ HandleOp([App EXCEPT !.p = rebase(tick(@, now, sortedFrames, duration))],
                request, "event", TRUE)

AppSettle(call, resp) ==
    /\ call \in inflight
    /\ Handle([App EXCEPT !.s = loadSettle(@, resp), !.inflight = @ \ {call}],
              request)

\* what the store returns to AppShell's loads
AppMaxFrames == 2
AppMaxT == 1
AppMaxDur == 1
\* the speeds chosen on the bar: 1x and 2x
AppSpeeds == {2, 4}
AppRaw(id) ==
    {r \in RawEpisodes(id) :
        /\ Len(r.frames) <= AppMaxFrames
        /\ \A i \in 1..Len(r.frames) : r.frames[i].t <= AppMaxT
        /\ IsSortedByT(r.frames)
        /\ r.duration.kind = "num" /\ r.duration.val \in 0..AppMaxDur}
AppResponses(id) == {FetchFailed} \cup {Payload(raw) : raw \in AppRaw(id)}
AppResponsesA == AppResponses("A")
AppResponsesB == AppResponses("B")
AppResponsesFor(id) == IF id = "A" THEN AppResponsesA ELSE AppResponsesB

AppNext ==
    \/ \E id \in EpisodeIds \cup {""} : OnEpisodeChange(id)
    \/ OnReloadEpisode
    \/ \E id \in EpisodeIds : StartDemoSeeded(id)
    \/ OnOpenReplay
    \/ OnBackToLive
    \/ OnReplayFromStart
    \/ BarTogglePlay
    \/ \E next \in AppSpeeds : BarSetSpeed(next)
    \/ \E t \in 0..AppMaxDur : BarScrub(t)
    \/ \E n \in {-1, 1} : BarStep(n)
    \/ \E now \in Nows : AppTick(now)
    \/ \E call \in inflight : \E resp \in AppResponsesFor(call.id) : AppSettle(call, resp)

AppInit == PlayerInit /\ SessionInit /\ ShellInit /\ HistoryInit /\ FnIdle /\ SceneIdle

SpecApp == AppInit /\ [][AppNext]_vars

----------------------------------------------------------------------------
(* AppShell: the rendered visual and the focus, over episodes whose frames
   carry valid and invalid payloads *)

\* SceneViewport's onFocus
OnFocus(id) ==
    HandleAs([App EXCEPT !.focusId = id, !.focusSource = "user"], request, "focus")

ViewMaxFrames == 2
\* a valid payload with a focus and an intensity to clamp, and one the schema
\* rejects
ViewVisuals == {VisualPayload(TRUE, "n1", 2), VisualPayload(FALSE, "n2", 1)}
FocusIds == {"n2"}
ViewFrameSeqs ==
    UNION {{[i \in 1..n |-> [t |-> i - 1, visual |-> v[i]]] : v \in [1..n -> ViewVisuals]} :
           n \in 0..ViewMaxFrames}
\* the duration is the last frame's timestamp
ViewRaw(id) ==
    {[episode_id |-> id, frames |-> fs,
      duration |-> [kind |-> "num", val |-> IF fs = <<>> THEN 0 ELSE Len(fs) - 1]] :
        fs \in ViewFrameSeqs}
ViewResponses(id) == {FetchFailed} \cup {Payload(raw) : raw \in ViewRaw(id)}
ViewResponsesA == ViewResponses("A")

\* the episode list offers one episode, and None
ViewNext ==
    \/ \E id \in {"A", ""} : OnEpisodeChange(id)
    \/ OnOpenReplay
    \/ OnBackToLive
    \/ \E t \in 0..(ViewMaxFrames - 1) : BarScrub(t)
    \/ \E id \in FocusIds : OnFocus(id)
    \/ \E call \in inflight : \E resp \in ViewResponsesA : AppSettle(call, resp)

SpecView == AppInit /\ [][ViewNext]_vars

\* the same with two episodes in the list, to go from one to the other
ViewResponsesB == ViewResponses("B")
ViewResponsesFor(id) == IF id = "A" THEN ViewResponsesA ELSE ViewResponsesB

SwitchNext ==
    \/ \E id \in EpisodeIds \cup {""} : OnEpisodeChange(id)
    \/ OnOpenReplay
    \/ OnBackToLive
    \/ \E t \in 0..(ViewMaxFrames - 1) : BarScrub(t)
    \/ \E call \in inflight : \E resp \in ViewResponsesFor(call.id) : AppSettle(call, resp)

SpecSwitch == AppInit /\ [][SwitchNext]_vars

----------------------------------------------------------------------------
(* findFrameIndex applied to drawn inputs *)

FindFrames == [t : 0..FindMaxT, visual : Visuals]
FindLists ==
    {fs \in UNION {[1..n -> FindFrames] : n \in 0..FindMaxLen} : IsSortedByT(fs)}
FindQueries == -1..(FindMaxT + 1)

FindInit ==
    /\ fnIn \in [frames : FindLists, t : FindQueries]
    /\ fnOut = Null
    /\ PlayerInit /\ SessionInit /\ ShellInit /\ HistoryInit /\ SceneIdle

ApplyFind ==
    /\ fnOut = Null
    /\ fnOut' = Some(findFrameIndex(fnIn.frames, fnIn.t))
    /\ UNCHANGED <<fnIn, playerVars, sessionVars, shellVars, historyVars, sceneVars>>

SpecFind == FindInit /\ [][ApplyFind]_vars

----------------------------------------------------------------------------
(* the sort of useReplayPlayer.sortedFrames and of load(), applied to drawn   *)
(* frame lists in any order; the visual tells frames of equal t apart         *)

SortMaxLen == 3
SortMaxT == 1
SortVisuals == {"p", "q", "r"}
SortFrames == [t : 0..SortMaxT, visual : SortVisuals]
SortLists == UNION {[1..n -> SortFrames] : n \in 0..SortMaxLen}

SortInit ==
    /\ fnIn \in [frames : SortLists]
    /\ fnOut = Null
    /\ PlayerInit /\ SessionInit /\ ShellInit /\ HistoryInit /\ SceneIdle

ApplySort ==
    /\ fnOut = Null
    /\ fnOut' = Some(sortByT(fnIn.frames))
    /\ UNCHANGED <<fnIn, playerVars, sessionVars, shellVars, historyVars, sceneVars>>

SpecSort == SortInit /\ [][ApplySort]_vars

----------------------------------------------------------------------------
(* visualState in full: the zod schemas and the normalisers over payloads    *)
(* whose numbers are spelled out.  A number of a payload is a record: a      *)
(* finite value in hundredths (0.01 is 1, 1 is 100, 5 is 500), NaN, Infinity *)
(* or -Infinity; a field that is not a number is a string token, an absent   *)
(* optional field is undefined.  JSON text has no NaN literal but its        *)
(* numbers overflow to +-Infinity.                                           *)

Num(v) == [kind |-> "num", val |-> v]
NaN == [kind |-> "nan", val |-> 0]
Infinity == [kind |-> "inf", val |-> 0]
NegInfinity == [kind |-> "ninf", val |-> 0]
NotANumber == [kind |-> "str", val |-> 0]
Undefined == [kind |-> "missing", val |-> 0]

IsFinite(x) == x.kind = "num"

\* Math.max and Math.min of two numbers
jsMax(a, b) ==
    IF a.kind = "nan" \/ b.kind = "nan" THEN NaN
    ELSE IF a.kind = "inf" \/ b.kind = "inf" THEN Infinity
    ELSE IF a.kind = "ninf" THEN b
    ELSE IF b.kind = "ninf" THEN a
    ELSE IF a.val >= b.val THEN a ELSE b

jsMin(a, b) ==
    IF a.kind = "nan" \/ b.kind = "nan" THEN NaN
    ELSE IF a.kind = "ninf" \/ b.kind = "ninf" THEN NegInfinity
    ELSE IF a.kind = "inf" THEN b
    ELSE IF b.kind = "inf" THEN a
    ELSE IF a.val <= b.val THEN a ELSE b

\* Number(x) || d of a number x: 0 and NaN are falsy, +-Infinity is not
numberOr(x, d) ==
    IF x.kind = "nan" \/ (x.kind = "num" /\ x.val = 0) THEN Num(d) ELSE x

\* z.number(): NaN is never a number; +-Infinity is one for the zod releases
\* that check only the type, and is not for those that also ask for finiteness.
\* The repository does not pin the release.
zNumber(infinityIsNumber, x) ==
    \/ x.kind = "num"
    \/ (infinityIsNumber /\ x.kind \in {"inf", "ninf"})

zOptionalNumber(infinityIsNumber, x) ==
    x.kind = "missing" \/ zNumber(infinityIsNumber, x)

NodeShapes == {"sphere", "box", "ico", "dodeca"}
LoopTypes == {"R", "B"}
FlowTypes == {"line", "tube"}

vec3Schema(z, v) == Len(v) = 3 /\ \A i \in 1..3 : zNumber(z, v[i])

nodeSchema(z, node) ==
    /\ node.id /= "" /\ node.shape \in NodeShapes
    /\ vec3Schema(z, node.pos)
    /\ zNumber(z, node.intensity) /\ zNumber(z, node.opacity)
    /\ zOptionalNumber(z, node.scale)

loopSchema(z, loop) ==
    /\ loop.id /= "" /\ loop.type \in LoopTypes
    /\ vec3Schema(z, loop.center)
    /\ zNumber(z, loop.radius) /\ zNumber(z, loop.intensity)
    /\ zNumber(z, loop.flowSpeed)
    /\ zOptionalNumber(z, loop.bottleneck) /\ zOptionalNumber(z, loop.delay)

leverSchema(z, lever) ==
    /\ lever.id /= "" /\ lever.target /= ""
    /\ vec3Schema(z, lever.pos)
    /\ zNumber(z, lever.strength)

flowSchema(z, flow) ==
    /\ flow.id /= "" /\ flow.from /= "" /\ flow.to /= ""
    /\ flow.type \in FlowTypes
    /\ zNumber(z, flow.speed)
    /\ zOptionalNumber(z, flow.intensity)

fieldSchema(z, field) ==
    /\ zNumber(z, field.chaos) /\ zNumber(z, field.density)
    /\ zNumber(z, field.noiseAmp)

\* flows and field are optional: a sequence of length 0 is undefined
visualStateSchema(z, input) ==
    /\ zOptionalNumber(z, input.t)
    /\ \A i \in 1..Len(input.nodes) : nodeSchema(z, input.nodes[i])
    /\ \A i \in 1..Len(input.loops) : loopSchema(z, input.loops[i])
    /\ \A i \in 1..Len(input.levers) : leverSchema(z, input.levers[i])
    /\ input.flows /= Null =>
           \A i \in 1..Len(input.flows[1]) : flowSchema(z, input.flows[1][i])
    /\ input.field /= Null => fieldSchema(z, input.field[1])

jsClamp(value, min, max) == jsMin(Num(max), jsMax(Num(min), value))

jsClamp01(value) == jsClamp(value, 0, 100)

clampVec3(v) == <<numberOr(v[1], 0), numberOr(v[2], 0), numberOr(v[3], 0)>>

optionally(x, clamped) == IF x.kind /= "missing" THEN clamped ELSE Undefined

normalizeNode(node) ==
    [node EXCEPT !.pos = clampVec3(node.pos),
                 !.intensity = jsClamp01(node.intensity),
                 !.opacity = jsClamp01(node.opacity),
                 !.scale = optionally(node.scale, jsClamp(node.scale, 10, 500))]

normalizeLoop(loop) ==
    [loop EXCEPT !.center = clampVec3(loop.center),
                 !.radius = jsMax(Num(1), numberOr(loop.radius, 1)),
                 !.intensity = jsClamp01(loop.intensity),
                 !.flowSpeed = jsMax(Num(0), numberOr(loop.flowSpeed, 0)),
                 !.bottleneck = optionally(loop.bottleneck, jsClamp01(loop.bottleneck)),
                 !.delay = optionally(loop.delay, jsClamp01(loop.delay))]

normalizeLever(lever) ==
    [lever EXCEPT !.pos = clampVec3(lever.pos),
                  !.strength = jsClamp01(lever.strength)]

normalizeFlow(flow) ==
    [flow EXCEPT !.speed = jsMax(Num(0), numberOr(flow.speed, 0)),
                 !.intensity = optionally(flow.intensity, jsClamp01(flow.intensity))]

\* a normaliser that rescales instead of clamping
halveField(field) ==
    [chaos |-> Num(jsClamp01(field.chaos).val \div 2),
     density |-> jsClamp01(field.density),
     noiseAmp |-> jsClamp01(field.noiseAmp)]

\* a normaliser that passes the field through
keepField(field) == field

normalizeField(field) ==
    [chaos |-> jsClamp01(field.chaos),
     density |-> jsClamp01(field.density),
     noiseAmp |-> jsClamp01(field.noiseAmp)]

\* parseVisualState on a payload in full: Null is { ok: false }, Some(data)
\* is { ok: true, data }
parseVisualStateOf(z, input) ==
    IF ~visualStateSchema(z, input) THEN Null
    ELSE Some([t |-> input.t,
               focus |-> input.focus,
               nodes |-> [i \in 1..Len(input.nodes) |-> normalizeNode(input.nodes[i])],
               loops |-> [i \in 1..Len(input.loops) |-> normalizeLoop(input.loops[i])],
               levers |-> [i \in 1..Len(input.levers) |-> normalizeLever(input.levers[i])],
               flows |-> IF input.flows /= Null
                         THEN Some([i \in 1..Len(input.flows[1]) |->
                                       normalizeFlow(input.flows[1][i])])
                         ELSE Null,
               field |-> IF input.field /= Null
                         THEN Some(normalizeField(input.field[1]))
                         ELSE Null])

\* the payloads drawn: one full payload (a node, a loop, a lever, a flow, a
\* field) with one of its places holding any value, the rest holding 0.5
NumberInputs ==
    {Num(v) : v \in {-150, 0, 1, 50, 100, 250, 700}}
        \cup {NaN, Infinity, NegInfinity, NotANumber, Undefined}

Places ==
    {"t", "node.x", "node.y", "node.z", "node.intensity", "node.opacity",
     "node.scale", "loop.x", "loop.y", "loop.z", "loop.radius",
     "loop.intensity", "loop.flowSpeed", "loop.bottleneck", "loop.delay",
     "lever.x", "lever.y", "lever.z", "lever.strength", "flow.speed",
     "flow.intensity", "field.chaos", "field.density", "field.noiseAmp"}

PayloadWith(place, v) ==
    LET at(p) == IF p = place THEN v ELSE Num(50)
    IN  [t |-> at("t"),
         focus |-> "n1",
         nodes |-> <<[id |-> "n1", shape |-> "sphere",
                      pos |-> <<at("node.x"), at("node.y"), at("node.z")>>,
                      color |-> "#fff",
                      intensity |-> at("node.intensity"),
                      opacity |-> at("node.opacity"),
                      scale |-> at("node.scale")]>>,
         loops |-> <<[id |-> "l1", type |-> "R",
                      center |-> <<at("loop.x"), at("loop.y"), at("loop.z")>>,
                      radius |-> at("loop.radius"),
                      intensity |-> at("loop.intensity"),
                      flowSpeed |-> at("loop.flowSpeed"),
                      bottleneck |-> at("loop.bottleneck"),
                      delay |-> at("loop.delay")]>>,
         levers |-> <<[id |-> "v1", target |-> "n1",
                       pos |-> <<at("lever.x"), at("lever.y"), at("lever.z")>>,
                       strength |-> at("lever.strength")]>>,
         flows |-> Some(<<[id |-> "f1", from |-> "n1", to |-> "n1",
                           type |-> "line", speed |-> at("flow.speed"),
                           intensity |-> at("flow.intensity")]>>),
         field |-> Some([chaos |-> at("field.chaos"),
                         density |-> at("field.density"),
                         noiseAmp |-> at("field.noiseAmp")])]

\* the same payloads without the optional flows and field, with no entity at
\* all, and with an entity whose id is empty or whose shape is unknown
ParseInputs ==
    {PayloadWith(p, v) : p \in Places, v \in NumberInputs}
        \cup {[PayloadWith(p, v) EXCEPT !.flows = Null, !.field = Null] :
                 p \in {"node.x", "loop.radius"}, v \in NumberInputs}
        \cup {[PayloadWith("t", Undefined) EXCEPT
                  !.nodes = <<>>, !.loops = <<>>, !.levers = <<>>],
              [PayloadWith("t", Num(0)) EXCEPT !.nodes[1].id = ""],
              [PayloadWith("t", Num(0)) EXCEPT !.nodes[1].shape = "cone"]}

ParseInit ==
    /\ fnIn \in [infinityIsNumber : BOOLEAN, input : ParseInputs]
    /\ fnOut = Null
    /\ PlayerInit /\ SessionInit /\ ShellInit /\ HistoryInit /\ SceneIdle

\* the payload is parsed, and what a successful parse returns is parsed again
ApplyParse ==
    /\ fnOut = Null
    /\ LET once == parseVisualStateOf(fnIn.infinityIsNumber, fnIn.input)
       IN  fnOut' = Some([once |-> once,
                          twice |-> IF once = Null THEN Null
                                    ELSE parseVisualStateOf(fnIn.infinityIsNumber,
                                                            once[1])])
    /\ UNCHANGED <<fnIn, playerVars, sessionVars, shellVars, historyVars, sceneVars>>

SpecParse == ParseInit /\ [][ApplyParse]_vars

----------------------------------------------------------------------------
(* SystemVisualScene: the entities it renders for a visual and which of them *)
(* it hands focused = true                                                   *)

NodeIdsOf(data) == {data.nodes[i].id : i \in 1..Len(data.nodes)}

\* one record per element rendered: its kind, its place in the list, and the
\* focused prop; a flow is rendered when both its ends are nodes
renderedEntities(data) ==
    LET focus == data.focus
    IN  {[kind |-> "loop", at |-> i, focused |-> data.loops[i].id = focus] :
             i \in 1..Len(data.loops)}
        \cup (IF data.flows = Null THEN {}
              ELSE {[kind |-> "flow", at |-> i,
                     focused |-> data.flows[1][i].id = focus] :
                        i \in {j \in 1..Len(data.flows[1]) :
                                  /\ data.flows[1][j].from \in NodeIdsOf(data)
                                  /\ data.flows[1][j].to \in NodeIdsOf(data)}})
        \cup {[kind |-> "node", at |-> i, focused |-> data.nodes[i].id = focus] :
                 i \in 1..Len(data.nodes)}
        \cup {[kind |-> "lever", at |-> i,
               focused |-> \/ data.levers[i].id = focus
                           \/ data.levers[i].target = focus] :
                 i \in 1..Len(data.levers)}

\* the scene of a visual: the error overlay (no entity) when the visual does
\* not parse
SystemVisualScene(z, visual) ==
    LET parsed == parseVisualStateOf(z, visual)
    IN  IF parsed = Null THEN {} ELSE renderedEntities(parsed[1])

\* the visuals drawn: one or two nodes, a loop, a lever and a flow, with ids,
\* lever target and flow ends out of a few names, the numbers at 0.5 but for
\* one opacity that is sometimes not a number; focus "" is no focus
SceneNodeIds == {<<"n1">>, <<"n1", "n2">>, <<"n1", "n1">>}
SceneLoopIds == {"l1", "n1"}
SceneLeverTargets == {"n1", "n2", "l1"}
SceneFlowEnds == {"n1", "n2"}
SceneFocusIds == {"", "n1", "n2", "l1", "v1", "f1"}

SceneVisual(nodeIds, loopId, target, from, to, focus, opacity) ==
    LET base == PayloadWith("node.opacity", opacity)
    IN  [base EXCEPT
            !.focus = focus,
            !.nodes = [i \in 1..Len(nodeIds) |-> [base.nodes[1] EXCEPT !.id = nodeIds[i]]],
            !.loops[1].id = loopId,
            !.levers[1].target = target,
            !.flows[1][1].from = from,
            !.flows[1][1].to = to]

SceneVisuals ==
    {SceneVisual(ns, l, target, from, to, focus, opacity) :
        ns \in SceneNodeIds, l \in SceneLoopIds, target \in SceneLeverTargets,
        from \in {"n1"}, to \in SceneFlowEnds, focus \in SceneFocusIds,
        opacity \in {Num(50), NotANumber}}

RenderInit ==
    /\ fnIn \in [infinityIsNumber : BOOLEAN, visual : SceneVisuals]
    /\ fnOut = Null
    /\ PlayerInit /\ SessionInit /\ ShellInit /\ HistoryInit /\ SceneIdle

RenderScene ==
    /\ fnOut = Null
    /\ fnOut' = Some(SystemVisualScene(fnIn.infinityIsNumber, fnIn.visual))
    /\ UNCHANGED <<fnIn, playerVars, sessionVars, shellVars, historyVars, sceneVars>>

SpecRender == RenderInit /\ [][RenderScene]_vars

----------------------------------------------------------------------------
(* SceneStateProvider: the overrides of scene objects and their undo and     *)
(* redo stacks.  An override entry keeps scale (in hundredths), visible,     *)
(* caption and showCaption; position, rotation and colour are taken from a   *)
(* patch the way scale is (checked, then stored) and are left out.  A state  *)
(* updater and the updaters it queues are one step.                          *)

UndoLimit == 30

Entry(scale, visible, caption, showCaption) ==
    [scale |-> scale, visible |-> visible, caption |-> caption,
     showCaption |-> showCaption]
EmptyEntry == Entry(Undefined, Null, Null, Null)

\* JSON.parse(JSON.stringify(o)): the keys that hold an entry, each entry with
\* the fields that are defined
jsonCopy(o) ==
    [id \in SceneIds |->
        IF o[id] = Null THEN Null
        ELSE Some(Entry(IF IsFinite(o[id][1].scale) THEN o[id][1].scale ELSE Undefined,
                        o[id][1].visible, o[id][1].caption, o[id][1].showCaption))]

Scene == [overrides |-> overrides, undoStack |-> undoStack, redoStack |-> redoStack]

SetScene(s) ==
    /\ overrides' = s.overrides
    /\ undoStack' = s.undoStack
    /\ redoStack' = s.redoStack

Last(n, stack) == SubSeq(stack, Len(stack) - n + 1, Len(stack))

\* a snapshot is pushed without a limit
pushUnlimited(s, prevOverrides) ==
    [s EXCEPT !.undoStack = Append(s.undoStack, jsonCopy(prevOverrides))]

pushUndoSnapshot(s, prevOverrides) ==
    LET next == Append(s.undoStack, jsonCopy(prevOverrides))
    IN  [s EXCEPT !.undoStack = IF Len(next) > UndoLimit
                                THEN Last(UndoLimit, next) ELSE next]

clearRedoStack(s) == [s EXCEPT !.redoStack = <<>>]

\* setOverride: of a patch it reads scale and visible (and position, rotation
\* and color); any other key of the patch is not read
setOverride(s, id, patch) ==
    LET pushed == clearRedoStack(pushUndoSnapshot(s, s.overrides))
        cur0 == IF s.overrides[id] /= Null THEN s.overrides[id][1] ELSE EmptyEntry
        cur1 == IF patch.scale.kind /= "missing" /\ IsFinite(patch.scale)
                THEN [cur0 EXCEPT !.scale = jsClamp(patch.scale, 20, 200)]
                ELSE cur0
        cur == IF patch.visible /= Null
               THEN [cur1 EXCEPT !.visible = patch.visible]
               ELSE cur1
    IN  [pushed EXCEPT !.overrides[id] = Some(cur)]

clearOverride(s, id) ==
    IF s.overrides[id] = Null THEN s
    ELSE [clearRedoStack(pushUndoSnapshot(s, s.overrides)) EXCEPT
              !.overrides[id] = Null]

setCaption(s, id, text) == setOverride(s, id, Entry(Undefined, Null, Some(text), Null))

toggleCaption(s, id, show) == setOverride(s, id, Entry(Undefined, Null, Null, Some(show)))

clearAllOverrides(s) ==
    [clearRedoStack(pushUndoSnapshot(s, s.overrides)) EXCEPT !.overrides = NoOverrides]

pruneOverridesTo(s, validIds) ==
    [clearRedoStack(pushUndoSnapshot(s, s.overrides)) EXCEPT
         !.overrides = [id \in SceneIds |->
                           IF id \in validIds THEN s.overrides[id] ELSE Null]]

undoOverrides(s) ==
    IF Len(s.undoStack) = 0 THEN s
    ELSE [overrides |-> jsonCopy(s.undoStack[Len(s.undoStack)]),
          redoStack |-> Append(s.redoStack, jsonCopy(s.overrides)),
          undoStack |-> SubSeq(s.undoStack, 1, Len(s.undoStack) - 1)]

redoOverrides(s) ==
    IF Len(s.redoStack) = 0 THEN s
    ELSE [overrides |-> jsonCopy(s.redoStack[Len(s.redoStack)]),
          undoStack |-> Append(s.undoStack, jsonCopy(s.overrides)),
          redoStack |-> SubSeq(s.redoStack, 1, Len(s.redoStack) - 1)]

\* the provider after mount: what the initialiser reads from localStorage
StoredOverrides ==
    {NoOverrides,
     [id \in SceneIds |-> IF id = "a"
                          THEN Some(Entry(Undefined, Null, Some("old"), Some(FALSE)))
                          ELSE Null]}

SceneInit ==
    /\ overrides \in StoredOverrides
    /\ undoStack = <<>>
    /\ redoStack = <<>>
    /\ PlayerInit /\ SessionInit /\ ShellInit /\ HistoryInit /\ FnIdle

\* the edits tried: while the two stacks hold fewer than SceneEdits snapshots
\* any edit, after that the edits that leave no override
SceneEdits == 2
Patches == {Entry(Num(250), Null, Null, Null), Entry(Undefined, Some(FALSE), Null, Null),
            Entry(NaN, Null, Null, Null)}
Captions == {"new"}
EditsOpen == Len(undoStack) + Len(redoStack) < SceneEdits

SceneStep(op, s) ==
    /\ SetScene(s)
    /\ lastOp' = op
    /\ UNCHANGED <<playerVars, sessionVars, shellVars, fnVars, acc, ticked, request, fired>>

SetOverride ==
    /\ EditsOpen
    /\ \E id \in SceneIds, patch \in Patches :
           SceneStep(OpIO("setOverride", [id |-> id]), setOverride(Scene, id, patch))

ClearOverride ==
    \E id \in SceneIds :
        SceneStep(OpIO("clearOverride", [id |-> id]), clearOverride(Scene, id))

SetCaption ==
    /\ EditsOpen
    /\ \E id \in SceneIds, text \in Captions :
           SceneStep(OpIO("setCaption", [id |-> id, text |-> text]),
                     setCaption(Scene, id, text))

ToggleCaption ==
    /\ EditsOpen
    /\ \E id \in SceneIds, show \in BOOLEAN :
           SceneStep(OpIO("toggleCaption", [id |-> id, show |-> show]),
                     toggleCaption(Scene, id, show))

ClearAllOverrides == SceneStep(Op("clearAllOverrides", 0), clearAllOverrides(Scene))

PruneOverridesTo ==
    \E validIds \in {{}, SceneIds} :
        /\ validIds = {} \/ EditsOpen
        /\ SceneStep(Op("pruneOverridesTo", 0), pruneOverridesTo(Scene, validIds))

UndoOverrides == SceneStep(Op("undoOverrides", 0), undoOverrides(Scene))

RedoOverrides == SceneStep(Op("redoOverrides", 0), redoOverrides(Scene))

SceneNext ==
    \/ SetOverride
    \/ ClearOverride
    \/ SetCaption
    \/ ToggleCaption
    \/ ClearAllOverrides
    \/ PruneOverridesTo
    \/ UndoOverrides
    \/ RedoOverrides

SpecScene == SceneInit /\ [][SceneNext]_vars

----------------------------------------------------------------------------
(* Properties of the playback clock *)

\* the index the floor search is specified to return: the largest i with
\* frames[i].t <= x, 0 when there is none
FloorIndex(frames, x) ==
    LET S == {i \in 0..(Len(frames) - 1) : frames[i + 1].t <= x}
    IN  IF S = {} THEN 0 ELSE CHOOSE i \in S : \A j \in S : j <= i

TimesOf(frames) == [i \in 1..Len(frames) |-> frames[i].t]

\* C2: in every reachable state of useReplayPlayer, 0 <= currentTime <= duration.
C2_TimeWithinDuration == 0 <= currentTime /\ currentTime <= duration

\* C3: on a list sorted by t, findFrameIndex(frames, t) is the largest index i
\* with frames[i].t <= t and 0 when the list is empty or no frame qualifies:
\* 0 before the first frame, the last index at or after the last frame, i (never
\* i + 1) strictly between frames i and i + 1; frames at 0, 2, 5: 3 gives 1, 5 gives 2.
C3_FloorSearch ==
    fnOut /= Null =>
        LET frames == fnIn.frames
            t == fnIn.t
            n == Len(frames)
            r == fnOut[1]
        IN  /\ r = FloorIndex(frames, t)
            /\ n = 0 => r = 0
            /\ (n > 0 /\ t < frames[1].t) => r = 0
            /\ (n > 0 /\ t >= frames[n].t) => r = n - 1
            /\ \A i \in 0..(n - 2) :
                   (frames[i + 1].t <= t /\ t < frames[i + 2].t) => r = i
            /\ (TimesOf(frames) = <<0, 2, 5>> /\ t = 3) => r = 1
            /\ (TimesOf(frames) = <<0, 2, 5>> /\ t = 5) => r = 2

C3_Witness ==
    /\ fnOut = Some(1)
    /\ TimesOf(fnIn.frames) = <<0, 2, 5>>
    /\ fnIn.t = 3

\* C4: from paused at currentTime = 0 with duration > 0, play() and then animation
\* frames whose advances (delta times speed) sum to exactly duration end paused at
\* currentTime = duration, and during that run currentTime never exceeds duration
\* and never decreases.
C4_PlayToEnd ==
    /\ [](acc >= 0 => duration > 0 /\ currentTime = Min2(acc, duration))
    /\ []((acc >= 0 /\ acc = duration) => (~isPlaying /\ currentTime = duration))
    /\ [][(acc >= 0 /\ acc' >= 0) =>
              (currentTime <= currentTime' /\ currentTime' <= duration')]_vars

C4_Witness ==
    /\ acc = duration
    /\ duration = MaxDur
    /\ lastOp.op = "tick"
    /\ ~isPlaying
    /\ currentTime = duration

\* C8: play() is a no-op when the clock is already playing or duration <= 0: with
\* duration <= 0, isPlaying is still false right after play(), and currentTime and
\* currentIndex are unchanged.
C8_PlayNoOp ==
    [][(lastOp'.op = "play" /\ (isPlaying \/ duration <= 0)) =>
          UNCHANGED <<isPlaying, currentTime, currentIndex>>]_vars

\* C9: step(n), for every integer n and every frame list, the empty one included,
\* leaves currentIndex within the frame bounds (never negative, never beyond the
\* last index), sets currentTime to that frame's t (0 when there is none) and
\* leaves isPlaying and speed unchanged.
C9_StepInBounds ==
    [][lastOp'.op = "step" =>
          /\ currentIndex' >= 0
          /\ currentIndex' <= Max2(0, Len(sortedFrames) - 1)
          /\ currentTime' = frameT(sortedFrames, currentIndex')
          /\ UNCHANGED <<isPlaying, speed>>]_vars

\* C10: scrub(t), for any t and in any play state, sets currentTime to t clamped
\* to [0, duration] and currentIndex to the floor index of the clamped time, and
\* leaves isPlaying and speed unchanged.
C10_ScrubClamps ==
    [][lastOp'.op = "scrub" =>
          LET t == lastOp'.arg
              clamped == IF t < 0 THEN 0 ELSE IF t > duration THEN duration ELSE t
          IN  /\ currentTime' = clamped
              /\ 0 <= currentTime' /\ currentTime' <= duration
              /\ currentIndex' = FloorIndex(sortedFrames, clamped)
              /\ UNCHANGED <<isPlaying, speed>>]_vars

C10_Witness ==
    /\ lastOp.op = "scrub"
    /\ lastOp.arg = MaxDur + 1
    /\ isPlaying
    /\ duration = MaxDur
    /\ currentTime = MaxDur
    /\ Len(sortedFrames) = 2
    /\ currentIndex = 1

----------------------------------------------------------------------------
(* Properties of the episode session *)

MaxTOf(frames) ==
    IF Len(frames) = 0 THEN 0
    ELSE CHOOSE m \in {frames[i].t : i \in 1..Len(frames)} :
             \A i \in 1..Len(frames) : frames[i].t <= m

\* C1: a load for A in flight, the id switches to B (a second load): in whatever
\* order the two settle, once both have settled the session's episode is B's and
\* never A's.
\* (error = "": no load has failed since the latest load() began.)
C1_LatestLoadWins ==
    (inflight = {} /\ selectedEpisodeId /= "" /\ error = "")
        => (episode /= Null /\ episode[1].episode_id = selectedEpisodeId)

\* C5: after every successful load, for any stored duration and any frame
\* timestamps the store returns, the stored episode has duration >= the maximum
\* t over its frames.
C5_DurationCoversFrames ==
    episode /= Null => episode[1].duration >= MaxTOf(episode[1].frames)

\* C6: for a fetched episode whose duration is unset, negative, zero or
\* non-finite and whose frames have maximum timestamp M > 0, the load succeeds
\* (error stays null) and the stored episode has duration = M.
DurationUnusable(d) == d.kind /= "num" \/ d.val <= 0
C6_UnusableDurationReconciled ==
    [][(lastOp'.op = "settle" /\ error = "") =>
          LET resp == lastOp'.io[1].resp
          IN  (/\ resp.data /= Null
               /\ DurationUnusable(resp.data[1].duration)
               /\ MaxTOf(resp.data[1].frames) > 0)
                  => /\ error' = ""
                     /\ episode' /= Null
                     /\ episode'[1].duration = MaxTOf(resp.data[1].frames)]_vars

\* C13: for every input frame sequence in any order, the sorted copy is a
\* permutation of the input that is non-decreasing in t, and frames with equal t
\* keep their relative input order.
PermsOf(n) == {p \in [1..n -> 1..n] : \A i, j \in 1..n : i /= j => p[i] /= p[j]}
StableSortOf(in, out) ==
    /\ Len(out) = Len(in)
    /\ IsSortedByT(out)
    /\ \E p \in PermsOf(Len(in)) :
          /\ \A k \in 1..Len(in) : out[k] = in[p[k]]
          /\ \A k, l \in 1..Len(in) :
                (k < l /\ out[k].t = out[l].t) => p[k] < p[l]
C13_SortStable == fnOut /= Null => StableSortOf(fnIn.frames, fnOut[1])
\* reached: an unsorted input with two frames of equal t after a later one
C13_Witness ==
    /\ fnOut /= Null
    /\ fnIn.frames = <<[t |-> 1, visual |-> "p"], [t |-> 0, visual |-> "q"],
                       [t |-> 0, visual |-> "r"]>>
    /\ fnOut[1] = <<[t |-> 0, visual |-> "q"], [t |-> 0, visual |-> "r"],
                    [t |-> 1, visual |-> "p"]>>

\* C12: loading an episode with zero frames is not an error (the episode is
\* stored and error stays null), and the stored episode has duration = 0
\* whatever number the store returned as its duration.
C12_EmptyEpisodeHasZeroDuration ==
    [][(lastOp'.op = "settle" /\ error = "") =>
          LET resp == lastOp'.io[1].resp
          IN  (/\ resp.data /= Null
               /\ Len(resp.data[1].frames) = 0
               /\ assertNumber(resp.data[1].duration))
                  => /\ error' = ""
                     /\ episode' /= Null
                     /\ episode'[1].duration = 0]_vars

\* C11: whenever the frames/duration given to useReplayPlayer change in frame
\* count or in duration, the player is left at currentTime = 0, currentIndex = 0
\* and paused, whatever its state was before.
C11_InputsChangeResets ==
    [][(lastOp'.op = "inputs"
          /\ (duration' /= duration \/ Len(sortedFrames') /= Len(sortedFrames)))
        => (currentTime' = 0 /\ currentIndex' = 0 /\ ~isPlaying')]_vars
\* reached: the deps changed while the player was not at rest
C11_Witness ==
    /\ lastOp = Op("inputs", 1)
    /\ Len(sortedFrames) = 1
    /\ currentTime = 0 /\ currentIndex = 0 /\ ~isPlaying

\* C14: useReplayEpisode follows the session protocol per load call: starting a
\* load sets loading = true and error = null; a load that fails (network,
\* not-found, or payload rejected by validateEpisode) sets episode = null, error to
\* a non-null message and loading = false; a load that succeeds stores the episode
\* and sets loading = false.
C14_SessionProtocol ==
    [][/\ lastOp'.op = "load" => (loading' /\ error' = "")
       /\ lastOp'.op = "settle" =>
             LET r == lastOp'.io[1].result
             IN  /\ ~loading'
                 /\ IF r.ok /\ validateEpisode(r.data[1])
                    THEN episode' = Some(reconcile(r.data[1])) /\ error' = error
                    ELSE episode' = Null /\ error' /= ""]_vars
\* reached: the second load got a payload that validateEpisode rejects
C14_Witness ==
    /\ lastOp.op = "settle"
    /\ lastOp.io[1].call.seq = 2
    /\ lastOp.io[1].result.ok
    /\ ~validateEpisode(lastOp.io[1].result.data[1])
    /\ episode = Null /\ error = "Invalid duration: expected number" /\ ~loading

\* C15: every started episode load eventually finishes and sets loading = false:
\* when the abort timer fires the call fails, its automatic retry included, so
\* loading never stays true forever.
C15_LoadsFinish ==
    /\ loading ~> ~loading
    /\ (inflight /= {}) ~> (inflight = {})
\* reached: a load ended by the timer, first attempt and retry both aborted
C15_Witness ==
    /\ lastOp.op = "settle"
    /\ lastOp.io[1].call.log = <<"abort", "abort">>
    /\ ~loading /\ error = "The operation was aborted." /\ episode = Null

\* C16: fetchJson makes at most two attempts per call: a second attempt is made
\* exactly when the first attempt failed without an HTTP status (connectivity
\* failure or abort) and retryNetworkErrors is true; a non-2xx response or an
\* invalid-JSON response is never retried; when the second attempt also fails its
\* error is thrown to the caller.
NoStatusFailure(tag) == tag \in {"network", "abort"}
ErrorOfAttempt(tag, err) ==
    /\ tag = "network" => err = FetchJsonError("Failed to fetch", 0)
    /\ tag = "abort" => err = FetchJsonError("The operation was aborted.", 0)
    /\ tag = "http" => (err.message = "Request failed" /\ err.status \in {404, 500})
    /\ tag = "json" => err = FetchJsonError("Invalid JSON response", 200)
C16_AtMostOneRetry ==
    /\ \A c \in inflight :
          /\ c.attempt \in {1, 2} /\ Len(c.log) = c.attempt - 1
          /\ c.attempt = 2 => (c.retryNetworkErrors /\ NoStatusFailure(c.log[1]))
    /\ lastOp.op = "settle" =>
          LET r == lastOp.io[1].result
              log == r.call.log
          IN  /\ Len(log) \in {1, 2}
              /\ Len(log) = 2 <=> (r.call.retryNetworkErrors /\ NoStatusFailure(log[1]))
              /\ r.ok <=> log[Len(log)] = "ok"
              /\ ~r.ok => ErrorOfAttempt(log[Len(log)], r.err)
\* reached: a connectivity failure, then a retry that ends in a 404, thrown
C16_Witness ==
    /\ lastOp.op = "settle"
    /\ lastOp.io[1].result.call.log = <<"network", "http">>
    /\ lastOp.io[1].result.err = FetchJsonError("Request failed", 404)

----------------------------------------------------------------------------
(* Properties of the orchestrator *)

\* C7: when a caller requests an episode with an intent (start demo: start, open
\* replay: end), the one-time transport action taken the first time the requested
\* episode is observed loaded follows the intent: start leaves the player at
\* currentTime = 0 and playing, end at currentTime = duration and paused.
C7_TransportFollowsIntent ==
    fired /= Null =>
        /\ fired[1].intent = "start" => (currentTime = 0 /\ isPlaying)
        /\ fired[1].intent = "end" => (currentTime = duration /\ ~isPlaying)

\* C20: in replay mode the one-time transport action fires exactly once for each
\* transition of the loaded episode id: while the view stays in replay mode, a
\* step takes the action if and only if it changes the loaded episode id to
\* another episode's id (not on other renders, frame changes, or reloads that
\* return the same id).
LoadedId == IF episode = Null THEN "" ELSE episode[1].episode_id
C20_TransportOncePerTransition ==
    [][(/\ lastOp'.op = "event" /\ viewMode = "replay" /\ viewMode' = "replay"
        /\ LoadedId' \in {"", selectedEpisodeId'})    \* no stale load stored
         => ((lastOp'.arg = 1) <=> (LoadedId' /= "" /\ LoadedId' /= LoadedId))]_vars

----------------------------------------------------------------------------
(* The visual handed to the scene *)

Shown == validatedVisual(App)
FrameShown ==
    IF currentIndex >= 0 /\ currentIndex < Len(sortedFrames)
    THEN Some(sortedFrames[currentIndex + 1]) ELSE Null
FrameValidates == FrameShown /= Null /\ FrameShown[1].visual.wellFormed
Normalised(v) == [v EXCEPT !.intensity = IF @ > 1 THEN 1 ELSE IF @ < 0 THEN 0 ELSE @]

WarningShown == replayVisualWarning(App) \/ visualWarning /= ""

\* C18: in replay mode, whenever the current frame's visual payload fails
\* validation, the scene is rendered from a validated state, never from the
\* invalid payload, and a warning is displayed.
C18_InvalidFrameFallsBackAndWarns ==
    (viewMode = "replay" /\ FrameShown /= Null /\ ~FrameValidates)
        => (Shown.wellFormed /\ Shown /= FrameShown[1].visual /\ WarningShown)

\* the rendering half alone, which the code keeps
C18_NeverRendersInvalid ==
    (viewMode = "replay" /\ FrameShown /= Null /\ ~FrameValidates)
        => (Shown.wellFormed /\ Shown /= FrameShown[1].visual)

----------------------------------------------------------------------------
(* The focus and its source *)

----------------------------------------------------------------------------
(* The index and the frame it displays *)

\* C26: in every reachable state of useReplayPlayer, currentIndex equals
\* findFrameIndex(sortedFrames, currentTime) for the current frame list.
C26_IndexFollowsTime == currentIndex = findFrameIndex(sortedFrames, currentTime)

\* C27: with at least one frame, the displayed frame is not a future one:
\* sortedFrames[currentIndex].t <= currentTime.
C27_NoFutureFrame ==
    Len(sortedFrames) >= 1 =>
        /\ currentIndex >= 0 /\ currentIndex < Len(sortedFrames)
        /\ sortedFrames[currentIndex + 1].t <= currentTime

----------------------------------------------------------------------------
(* The baseline of the animation clock *)

\* C28: the first animation callback after the clock started (after play(),
\* following pause() or the stop at the end) uses a delta of 0 whatever instant
\* it is given; each later callback advances by (now - previous callback's
\* instant) times speed.  The advance is the code's, clamped into [0, duration];
\* the previous callback's instant is 1 on the moving clock.
C28_FirstTickIsBaseline ==
    [][lastOp'.op = "tick" =>
          currentTime' = clamp(currentTime + (IF ticked THEN lastOp'.arg - 1 ELSE 0) * speed,
                               0, duration)]_vars

\* started in the middle of the episode: the first callback, given the latest
\* instant, has left the time where it was
C28_Witness ==
    /\ lastOp = Op("tick", 1 + MaxDelta)
    /\ isPlaying /\ ticked
    /\ currentTime = 1 /\ duration = 2
    /\ acc = -1

----------------------------------------------------------------------------
(* Where the fallback visual comes from *)

\* the visuals of the loaded episode's frames that validate, normalised
LoadedVisuals ==
    {Normalised(sortedFrames[i].visual) :
        i \in {j \in 1..Len(sortedFrames) : sortedFrames[j].visual.wellFormed}}

\* C29: when the loaded episode changes from one episode to another and replay
\* mode is then on a frame whose visual fails validation, what is displayed is
\* the live state or a visual of a frame of the episode now loaded, never a
\* visual recorded in the episode loaded before.
C29_FallbackFromLoadedEpisode ==
    [][(/\ LoadedId /= "" /\ LoadedId' /= "" /\ LoadedId' /= LoadedId
        /\ LoadedId' = selectedEpisodeId'        \* the episode asked for
        /\ viewMode' = "replay" /\ FrameShown' /= Null /\ ~FrameValidates')
           => (Shown' = visualState' \/ Shown' \in LoadedVisuals')]_vars

----------------------------------------------------------------------------
(* What parseVisualState returns *)

Parsed == fnOut /= Null /\ fnOut[1].once /= Null
ParsedData == fnOut[1].once[1]

SeqRange(s) == {s[i] : i \in 1..Len(s)}
FlowsOf(d) == IF d.flows = Null THEN {} ELSE SeqRange(d.flows[1])
FieldsOf(d) == IF d.field = Null THEN {} ELSE {d.field[1]}

\* the coordinates of node positions, loop centres and lever positions
CoordinatesOf(d) ==
    UNION ({SeqRange(n.pos) : n \in SeqRange(d.nodes)}
              \cup {SeqRange(l.center) : l \in SeqRange(d.loops)}
              \cup {SeqRange(v.pos) : v \in SeqRange(d.levers)})

FiniteAtLeast(x, low) == IsFinite(x) /\ x.val >= low

\* C22: in the data of every payload parseVisualState accepts, every
\* coordinate of a node position, loop centre and lever position is finite,
\* every loop radius is finite and at least 0.01, and every loop flowSpeed and
\* flow speed is finite and at least 0.
C22_GeometryFinite ==
    Parsed =>
        /\ \A c \in CoordinatesOf(ParsedData) : IsFinite(c)
        /\ \A l \in SeqRange(ParsedData.loops) :
               FiniteAtLeast(l.radius, 1) /\ FiniteAtLeast(l.flowSpeed, 0)
        /\ \A f \in FlowsOf(ParsedData) : FiniteAtLeast(f.speed, 0)

\* the part of C22 the normalisers keep: what is finite in the data obeys the
\* lower bounds, and a finite coordinate is the input's
C22_FiniteGeometryBounded ==
    Parsed =>
        /\ \A l \in SeqRange(ParsedData.loops) :
               /\ IsFinite(l.radius) => l.radius.val >= 1
               /\ IsFinite(l.flowSpeed) => l.flowSpeed.val >= 0
               /\ l.radius.kind \in {"num", "inf"}
               /\ l.flowSpeed.kind \in {"num", "inf"}
        /\ \A f \in FlowsOf(ParsedData) : f.speed.kind \in {"num", "inf"}
        /\ \A c \in CoordinatesOf(ParsedData) : c.kind /= "nan"

\* the magnitudes normalised into [0, 1], of the input or of the data; an
\* optional one counts when it is present
UnitMagnitudes(d) ==
    LET all ==
            UNION {{<<"node.intensity", n.intensity>>, <<"node.opacity", n.opacity>>} :
                       n \in SeqRange(d.nodes)}
            \cup UNION {{<<"loop.intensity", l.intensity>>,
                         <<"loop.bottleneck", l.bottleneck>>,
                         <<"loop.delay", l.delay>>} : l \in SeqRange(d.loops)}
            \cup {<<"lever.strength", v.strength>> : v \in SeqRange(d.levers)}
            \cup {<<"flow.intensity", f.intensity>> : f \in FlowsOf(d)}
            \cup UNION {{<<"field.chaos", g.chaos>>, <<"field.density", g.density>>,
                         <<"field.noiseAmp", g.noiseAmp>>} : g \in FieldsOf(d)}
    IN  {m \in all : m[2].kind /= "missing"}

InUnit(x) == IsFinite(x) /\ x.val >= 0 /\ x.val <= 100

\* a payload of the right shape: ids and targets non-empty, shapes and types
\* of the enumerations, every number a finite number, optional fields absent
\* or so
FiniteOrAbsent(x) == x.kind \in {"num", "missing"}

StructurallyValid(input) ==
    /\ FiniteOrAbsent(input.t)
    /\ \A n \in SeqRange(input.nodes) :
           /\ n.id /= "" /\ n.shape \in NodeShapes
           /\ \A c \in SeqRange(n.pos) : IsFinite(c)
           /\ IsFinite(n.intensity) /\ IsFinite(n.opacity) /\ FiniteOrAbsent(n.scale)
    /\ \A l \in SeqRange(input.loops) :
           /\ l.id /= "" /\ l.type \in LoopTypes
           /\ \A c \in SeqRange(l.center) : IsFinite(c)
           /\ IsFinite(l.radius) /\ IsFinite(l.intensity) /\ IsFinite(l.flowSpeed)
           /\ FiniteOrAbsent(l.bottleneck) /\ FiniteOrAbsent(l.delay)
    /\ \A v \in SeqRange(input.levers) :
           /\ v.id /= "" /\ v.target /= ""
           /\ \A c \in SeqRange(v.pos) : IsFinite(c)
           /\ IsFinite(v.strength)
    /\ \A f \in FlowsOf(input) :
           /\ f.id /= "" /\ f.from /= "" /\ f.to /= "" /\ f.type \in FlowTypes
           /\ IsFinite(f.speed) /\ FiniteOrAbsent(f.intensity)
    /\ \A g \in FieldsOf(input) :
           IsFinite(g.chaos) /\ IsFinite(g.density) /\ IsFinite(g.noiseAmp)

\* C23: parseVisualState succeeds on every structurally valid payload, whatever
\* the size of its numbers; in the data of every payload it accepts, node
\* intensity and opacity, loop intensity, bottleneck and delay, lever strength,
\* flow intensity and the field's chaos, density and noiseAmp lie in [0, 1];
\* and such a magnitude that was in [0, 1] in the input is unchanged.
C23_MagnitudesInUnitRange ==
    fnOut /= Null =>
        /\ StructurallyValid(fnIn.input) => Parsed
        /\ Parsed =>
               /\ \A m \in UnitMagnitudes(ParsedData) : InUnit(m[2])
               /\ \A m \in UnitMagnitudes(fnIn.input) :
                      InUnit(m[2]) => m \in UnitMagnitudes(ParsedData)

\* a structurally valid payload with the field's chaos at 2.5 was accepted and
\* its chaos is 1
C23_Witness ==
    /\ Parsed /\ StructurallyValid(fnIn.input)
    /\ fnIn.input.field /= Null /\ fnIn.input.field[1].chaos = Num(250)
    /\ ParsedData.field[1].chaos = Num(100)
    /\ ParsedData.field[1].density = Num(50)

\* C24: parsing the data of a successful parseVisualState again succeeds and
\* returns the same data.
C24_ParseIdempotent ==
    Parsed => fnOut[1].twice = fnOut[1].once

\* a payload whose field the first parse changed, parsed again
C24_Witness ==
    /\ Parsed
    /\ fnIn.input.field /= Null /\ fnIn.input.field[1].chaos = Num(-150)
    /\ ParsedData.field[1].chaos = Num(0)
    /\ fnOut[1].twice /= Null

----------------------------------------------------------------------------
(* The override history and the captions *)

\* C25: after any sequence of setOverride, setCaption, toggleCaption,
\* clearOverride, clearAllOverrides, pruneOverridesTo, undoOverrides and
\* redoOverrides, the undo stack and the redo stack each hold at most 30
\* snapshots.
C25_StacksBounded ==
    Len(undoStack) <= UndoLimit /\ Len(redoStack) <= UndoLimit

\* the undo stack was full and a further edit pushed one more snapshot
C25_Witness ==
    /\ lastOp.op = "pruneOverridesTo"
    /\ Len(undoStack) = UndoLimit
    /\ undoStack[1] = NoOverrides /\ undoStack[UndoLimit] = NoOverrides

\* C30: after setCaption(id, text), overrides[id].caption is text; after
\* toggleCaption(id, show), overrides[id].showCaption is show.
C30_CaptionStored ==
    [][/\ lastOp'.op = "setCaption" =>
              LET a == lastOp'.io[1]
              IN  overrides'[a.id] /= Null /\ overrides'[a.id][1].caption = Some(a.text)
       /\ lastOp'.op = "toggleCaption" =>
              LET a == lastOp'.io[1]
              IN  overrides'[a.id] /= Null
                  /\ overrides'[a.id][1].showCaption = Some(a.show)]_vars

\* what the two callbacks do keep: the id has an override entry afterwards,
\* with the caption and showCaption it had before
C30_CaptionUntouched ==
    [][lastOp'.op \in {"setCaption", "toggleCaption"} =>
          LET id == lastOp'.io[1].id
              before == IF overrides[id] /= Null THEN overrides[id][1] ELSE EmptyEntry
          IN  overrides'[id] = Some(before)]_vars

----------------------------------------------------------------------------
(* The focused entity of the scene *)

FocusedEntities == IF fnOut = Null THEN {} ELSE {e \in fnOut[1] : e.focused}

\* C21: for every validated visual and every focus id, at most one of the
\* rendered nodes, loops, levers and flows is handed focused = true.
C21_OneFocusedEntity == Cardinality(FocusedEntities) <= 1

\* what the scene keeps: with ids that differ, at most one node, loop or flow
\* is focused, and every focused lever is the focus or acts on it
C21_FocusedCarryTheFocus ==
    fnOut /= Null =>
        LET v == fnIn.visual
            ids == <<v.nodes[1].id>> \o (IF Len(v.nodes) = 2 THEN <<v.nodes[2].id>> ELSE <<>>)
                       \o <<v.loops[1].id, v.flows[1][1].id>>
            distinct == \A i, j \in 1..Len(ids) : i /= j => ids[i] /= ids[j]
        IN  /\ distinct =>
                   Cardinality({e \in FocusedEntities : e.kind /= "lever"}) <= 1
            /\ \A e \in FocusedEntities :
                   /\ v.focus /= ""
                   /\ e.kind = "lever" =>
                          v.focus \in {v.levers[e.at].id, v.levers[e.at].target}

====
